---- MODULE Spec2Model ----
(***************************************************************************)
(* Model of library/docker_simple.py: an ansible module that reconciles    *)
(* the declared state of one named docker container (running / restarted / *)
(* stopped) with the docker runtime, using a two-line record file that     *)
(* remembers the build and run commands of the previous invocation.        *)
(*                                                                         *)
(* Strings are sequences of atoms (short TLA+ strings standing for one     *)
(* character or one fixed word), so that slicing, searching, joining and   *)
(* the line-oriented record file are computed the way the code computes    *)
(* them.                                                                   *)
(***************************************************************************)
EXTENDS Integers, Sequences, FiniteSets, TLC

(***************************************************************************)
(* Bounds of the model.                                                    *)
(***************************************************************************)
\* the build path holds one file; its modification time and the image
\* creation times range over 0..MaxTime
MaxTime == 1

(***************************************************************************)
(* String helpers (Python str operations used by the module).              *)
(***************************************************************************)
NL == "\n"
SP == " "

\* x in s, for a one-character x
Contains(s, x) == \E i \in 1..Len(s) : s[i] = x

\* s[:-6]  (Python slice: everything but the last six characters)
AllButLast6(s) == IF Len(s) > 6 THEN SubSeq(s, 1, Len(s) - 6) ELSE <<>>

\* ' '.join(tokens), tokens a sequence of strings
RECURSIVE Join(_)
Join(tokens) ==
    IF tokens = <<>> THEN <<>>
    ELSE IF Len(tokens) = 1 THEN tokens[1]
    ELSE tokens[1] \o <<SP>> \o Join(Tail(tokens))

\* index of the first newline of s, 0 when there is none
RECURSIVE FirstNL(_, _)
FirstNL(s, i) ==
    IF i > Len(s) THEN 0
    ELSE IF s[i] = NL THEN i
    ELSE FirstNL(s, i + 1)

\* file.readline() on the text that is left: <<line, rest>>; the line keeps
\* its newline, and is empty at end of file
ReadLine(text) ==
    LET n == FirstNL(text, 1) IN
    IF n = 0 THEN <<text, <<>>>>
    ELSE <<SubSeq(text, 1, n), SubSeq(text, n + 1, Len(text))>>

\* "if line and line[-1] == '\n': line = line[:-1]"
StripNL(line) ==
    IF Len(line) > 0 /\ line[Len(line)] = NL
    THEN SubSeq(line, 1, Len(line) - 1)
    ELSE line

(***************************************************************************)
(* Option values.  A value is None, a str, a list of str or (build_args)   *)
(* a dict given as a sequence of <<key, value>> pairs in iteration order.  *)
(***************************************************************************)
None == [k |-> "none", v |-> <<>>]
StrVal(s) == [k |-> "str", v |-> s]
ListVal(l) == [k |-> "list", v |-> l]
DictVal(d) == [k |-> "dict", v |-> d]

LOCAL_TAG == <<":", "l", "o", "c", "a", "l">>

\* key.replace('_', '-'), keys being sequences of words and underscores
ReplaceUnderscore(key) == [i \in 1..Len(key) |-> IF key[i] = "_" THEN "-" ELSE key[i]]

\* repr of a dict, as str(value) renders a build_args mapping
RECURSIVE DictItems(_)
DictItems(d) ==
    IF d = <<>> THEN <<>>
    ELSE <<"'">> \o d[1][1] \o <<"'", ":", SP, "'">> \o d[1][2] \o <<"'">>
         \o (IF Len(d) > 1 THEN <<",", SP>> ELSE <<>>) \o DictItems(Tail(d))

\* str(value)
Str(val) ==
    IF val.k = "dict" THEN <<"{">> \o DictItems(val.v) \o <<"}">>
    ELSE val.v

\* truth value of a scalar ("elif value:"): None, '' and {} are falsy
Truthy(val) ==
    CASE val.k = "none" -> FALSE
      [] val.k = "str"  -> Len(val.v) > 0
      [] val.k = "dict" -> Len(val.v) > 0
      [] OTHER          -> FALSE

\* the tokens one (key, value) pair adds to a command line
ArgTokens(key, val) ==
    LET arg_name == <<"--">> \o ReplaceUnderscore(key) IN
    IF val.k = "list"
    THEN [i \in 1..(2 * Len(val.v)) |->
             IF i % 2 = 1 THEN arg_name ELSE val.v[(i \div 2)]]
    ELSE IF Truthy(val) THEN <<arg_name, Str(val)>>
    ELSE <<>>

\* kwargs: a sequence of [key, val] in the mapping's iteration order
RECURSIVE AllArgTokens(_)
AllArgTokens(kwargs) ==
    IF kwargs = <<>> THEN <<>>
    ELSE ArgTokens(kwargs[1].key, kwargs[1].val) \o AllArgTokens(Tail(kwargs))

construct_docker_command(command, kwargs) ==
    << <<"docker">>, <<command>> >> \o AllArgTokens(kwargs)

\* build_args['tag'] = image on a dict: replaces the entry or appends it
SetTag(d, image) ==
    IF \E i \in 1..Len(d) : d[i][1] = <<"tag">>
    THEN [i \in 1..Len(d) |-> IF d[i][1] = <<"tag">> THEN <<<<"tag">>, image>> ELSE d[i]]
    ELSE Append(d, <<<<"tag">>, image>>)

\* the dict the build command is made of (a fresh one when build_args is
\* absent or None)
BuildArgsDict(image, build_args) ==
    SetTag(IF build_args.k = "dict" THEN build_args.v ELSE <<>>, image)

DictKwargs(d) == [i \in 1..Len(d) |-> [key |-> d[i][1], val |-> StrVal(d[i][2])]]

construct_docker_build_command(image, params) ==
    construct_docker_command("build", DictKwargs(BuildArgsDict(image, params.build_args)))
        \o << <<"--no-cache">>, <<".">> >>

\* the build_args entry of kwargs after the build command was constructed:
\* the dict is shared with the caller's mapping, so a dict that was passed in
\* now carries the tag; None stays None
BuildArgsAfterBuild(image, build_args) ==
    IF build_args.k = "dict" THEN DictVal(SetTag(build_args.v, image)) ELSE build_args

\* kwargs of the run command: every module parameter but state, image, path
\* and (popped) command
RunKwargs(image, params) ==
    << [key |-> <<"name">>, val |-> StrVal(params.name)],
       [key |-> <<"build", "_", "args">>, val |-> BuildArgsAfterBuild(image, params.build_args)],
       [key |-> <<"env">>, val |-> params.env] >>

construct_docker_run_command(image, params) ==
    construct_docker_command("run", RunKwargs(image, params))
        \o << <<"-d">>, image >>
        \o (IF Truthy(params.command) THEN <<params.command.v>> ELSE <<>>)

(***************************************************************************)
(* Module parameters (module.params without 'state').  Parameters that are *)
(* not given are None (argument_spec default=None).                        *)
(***************************************************************************)
ContainerName == <<"c">>
ImgF == <<"f">>

ImageArgs ==
    { None, StrVal(ImgF), StrVal(ImgF \o <<":", "v">>), StrVal(ImgF \o LOCAL_TAG),
      StrVal(LOCAL_TAG \o <<"a", "b", "c", "d", "e", "f">>) }
PathArgs == { None, StrVal(<<"p">>) }
CommandArgs == { None, StrVal(<<"sh">>), StrVal(<<"a", NL, "b">>) }
BuildArgsArgs ==
    { None, DictVal(<<>>), DictVal(<< <<<<"build", "_", "arg">>, <<"A">>>> >>) }
EnvArgs == { None, ListVal(<< <<"E">> >>) }

AllParams ==
    [name : {ContainerName}, image : ImageArgs, path : PathArgs,
     command : CommandArgs, build_args : BuildArgsArgs, env : EnvArgs]

\* the parameter mappings the invocations are drawn from: the image/path
\* combinations, and the other options varied one at a time on the image "f"
ModuleParams ==
    { q \in AllParams :
        /\ q.env = None
        /\ (q.image # StrVal(ImgF)) => (q.command = None /\ q.build_args = None)
        /\ (q.image = StrVal(ImgF \o <<":", "v">>)) => q.path # None
        /\ (q.build_args # None) => (q.command = None /\ q.path # None)
        /\ (q.command = StrVal(<<"a", NL, "b">>)) => q.path # None }

States == {"running", "restarted", "stopped"}

(***************************************************************************)
(* Container.__init__: argument checks and the derived attributes.         *)
(***************************************************************************)
\* "state != 'stopped' and 'image' not in module.params"
NoImageProvided(state, params) == state # "stopped" /\ params.image.k = "absent"

\* evaluating "':' in self.image" or "self.image[:-6]" on None raises TypeError
InitTypeError(params) == params.image.k = "none"

is_local_image(params) == Truthy(params.path)

\* the two InvalidArgumentException conditions
InitInvalidArgument(params) ==
    IF is_local_image(params)
    THEN Contains(params.image.v, ":")
    ELSE AllButLast6(params.image.v) = LOCAL_TAG

\* self.image after __init__
image_of(params) ==
    IF is_local_image(params) THEN params.image.v \o LOCAL_TAG ELSE params.image.v

build_command_str(params) == Join(construct_docker_build_command(image_of(params), params))
run_command_str(params) == Join(construct_docker_run_command(image_of(params), params))

\* the two lines read from the record file, newlines stripped
prev_build_command(text) == StripNL(ReadLine(text)[1])
prev_run_command(text) == StripNL(ReadLine(ReadLine(text)[2])[1])

\* what __del__ writes
RecordText(params) == build_command_str(params) \o <<NL>> \o run_command_str(params)

(***************************************************************************)
(* State.                                                                  *)
(***************************************************************************)
VARIABLES
    file,        \* text of the record file DOCKER_COMMANDS_PATH/<name> (empty: absent or empty)
    container,   \* the named container: [st, cmd], cmd the run command that created it
    images,      \* image reference -> [exists, cmd, created]
    now,         \* current time
    fileMtime,   \* modification time of the file under the build path
    inv          \* process -> the invocation (run_module and its Container object)

vars == <<file, container, images, now, fileMtime, inv>>

Procs == {1, 2}

\* image references the valid parameter mappings can name
ImageRefs == { ImgF, ImgF \o LOCAL_TAG }

NoImage == [exists |-> FALSE, cmd |-> <<>>, created |-> 0]
NoContainer == [st |-> "absent", cmd |-> <<>>]
\* the run command of a container that was not created by this module
External == <<"external">>

\* a parameter mapping that stands for "no invocation"
NoParams ==
    [name |-> <<>>, image |-> None, path |-> None, command |-> None,
     build_args |-> None, env |-> None]

NoResult == [kind |-> "none", changed |-> FALSE, msg |-> "", change_reason |-> <<>>]

\* pc, state .. failed model run_module and the Container object; calls, qfail,
\* repeat and the fields ending in 0 are history kept for stating properties:
\* the commands issued, whether an inspect failed on something that exists,
\* and the record, container, image and file time the invocation started from;
\* iquery: the image was inspected, ifail: that inspect raised, pfail: the
\* inspect of the container raised (whatever the cause)
Idle ==
    [pc |-> "idle", state |-> "none", params |-> NoParams,
     prev_build_command |-> <<>>, prev_run_command |-> <<>>,
     changed |-> FALSE, change_reason |-> <<>>,
     todo |-> <<>>, phase |-> "none", failed |-> "",
     calls |-> <<>>, qfail |-> FALSE, repeat |-> FALSE, file0 |-> <<>>,
     container0 |-> NoContainer, image0 |-> NoImage, mtime0 |-> 0,
     iquery |-> FALSE, ifail |-> FALSE, pfail |-> FALSE,
     result |-> NoResult]

Init ==
    /\ file = <<>>
    /\ container \in { NoContainer,
                       [st |-> "stopped", cmd |-> External],
                       [st |-> "running", cmd |-> External] }
    /\ images \in [ImageRefs -> { NoImage, [exists |-> TRUE, cmd |-> <<>>, created |-> 0] }]
    /\ now = 0
    /\ fileMtime = 0
    /\ inv = [p \in Procs |-> Idle]

(***************************************************************************)
(* run_module up to the end of Container.__init__.                         *)
(***************************************************************************)
\* the failure payload of fail(): changed = True and a message
FailPayload(msg) == [kind |-> "fail", changed |-> TRUE, msg |-> msg, change_reason |-> <<>>]

\* ghost: this invocation directly follows a successful Ensure Running with
\* the same options, nothing having touched the runtime or the record since
\* (an idle process remembers the options of such an invocation in params)
Repeats(old, state, params) ==
    /\ state = "running"
    /\ old.params = params

Invoke(p, state, params) ==
    /\ inv[p].pc = "idle"
    /\ LET start == [Idle EXCEPT !.state = state, !.params = params, !.file0 = file,
                                 !.repeat = Repeats(inv[p], state, params),
                                 !.container0 = container,
                                 !.image0 = IF image_of(params) \in ImageRefs
                                            THEN images[image_of(params)] ELSE NoImage,
                                 !.mtime0 = fileMtime]
       IN
       IF NoImageProvided(state, params)
       THEN inv' = [inv EXCEPT ![p] = [start EXCEPT !.pc = "done",
                        !.result = FailPayload("Invalid argument")]]
       ELSE IF InitTypeError(params)
       THEN \* the TypeError is caught nowhere: the module dies with a traceback
            inv' = [inv EXCEPT ![p] = [start EXCEPT !.pc = "done",
                        !.result = [NoResult EXCEPT !.kind = "crash", !.msg = "TypeError"]]]
       ELSE IF InitInvalidArgument(params)
       THEN inv' = [inv EXCEPT ![p] = [start EXCEPT !.pc = "done",
                        !.result = FailPayload("Invalid argument")]]
       ELSE inv' = [inv EXCEPT ![p] = [start EXCEPT
                        !.pc = IF state = "running" THEN "image" ELSE "probe",
                        !.prev_build_command = prev_build_command(file),
                        !.prev_run_command = prev_run_command(file)]]
    /\ UNCHANGED <<file, container, images, now, fileMtime>>

(***************************************************************************)
(* Queries of the runtime.                                                 *)
(***************************************************************************)
\* mutant: the file times are not looked at
needs_rebuild_NoFiles(c, found) ==
    IF build_command_str(c.params) # c.prev_build_command
    THEN <<TRUE, <<"Arguments changed for build command">>>>
    ELSE IF ~found
    THEN <<TRUE, <<"Image not found, needs rebuild">>>>
    ELSE <<FALSE, <<>>>>

\* mutant: a file as old as the image counts as changed
needs_rebuild_NotStrict(c, found) ==
    IF build_command_str(c.params) # c.prev_build_command
    THEN <<TRUE, <<"Arguments changed for build command">>>>
    ELSE IF ~found
    THEN <<TRUE, <<"Image not found, needs rebuild">>>>
    ELSE IF images[image_of(c.params)].created <= fileMtime
    THEN <<TRUE, <<"File changed">>>>
    ELSE <<FALSE, <<>>>>

\* needs_rebuild, given whether the image inspect succeeded: <<result, reasons>>
needs_rebuild(c, found) ==
    IF build_command_str(c.params) # c.prev_build_command
    THEN <<TRUE, <<"Arguments changed for build command">>>>
    ELSE IF ~found
    THEN <<TRUE, <<"Image not found, needs rebuild">>>>
    ELSE IF images[image_of(c.params)].created < fileMtime
    THEN <<TRUE, <<"File changed">>>>
    ELSE <<FALSE, <<>>>>

\* mutant: the image is pulled whether it is present or not
needs_pull_Always(c, found) ==
    IF ~found THEN <<TRUE, <<"Image not found, needs pull">>>> ELSE <<TRUE, <<>>>>

\* needs_pull, given whether the image inspect succeeded
needs_pull(c, found) ==
    IF ~found THEN <<TRUE, <<"Image not found, needs pull">>>> ELSE <<FALSE, <<>>>>

\* needs_rebuild asks the runtime only when the build command did not change
QueriesImage(c) ==
    is_local_image(c.params) => build_command_str(c.params) = c.prev_build_command

\* ensure_image_is_updated up to the decision; found is the outcome of the
\* docker inspect of the image
ImagePlan(c, found) ==
    LET r == IF is_local_image(c.params) THEN needs_rebuild(c, found) ELSE needs_pull(c, found)
        act == IF is_local_image(c.params) THEN "build" ELSE "pull"
    IN [c EXCEPT !.change_reason = @ \o r[2],
                 !.todo = IF r[1] THEN <<act>> ELSE <<>>,
                 !.phase = "image",
                 !.iquery = QueriesImage(c),
                 !.ifail = QueriesImage(c) /\ ~found,
                 !.pc = IF r[1] THEN "act" ELSE "probe"]

CheckImage(p) ==
    /\ inv[p].pc = "image"
    /\ \/ inv' = [inv EXCEPT ![p] = ImagePlan(inv[p], images[image_of(inv[p].params)].exists)]
       \/ \* the inspect fails although the image is there
          /\ QueriesImage(inv[p])
          /\ images[image_of(inv[p].params)].exists
          /\ inv' = [inv EXCEPT ![p] = [ImagePlan(inv[p], FALSE) EXCEPT !.qfail = TRUE]]
    /\ UNCHANGED <<file, container, images, now, fileMtime>>

\* mutant: restart always recreates the container
restart_Recreate(changed) == IF changed THEN <<"stop", "rm", "run">> ELSE <<"stop", "rm", "run">>

\* Container.restart
restart(changed) == IF changed THEN <<"stop", "rm", "run">> ELSE <<"restart">>

\* mutant: an unchanged stopped container is left stopped
ensure_running_NoStart(c, runs) ==
    LET drift == run_command_str(c.params) # c.prev_run_command IN
    IF runs = "true"
    THEN IF c.changed \/ drift THEN <<"stop", "rm", "run">> ELSE <<>>
    ELSE IF runs = "none"
    THEN <<"run">>
    ELSE IF c.changed \/ drift THEN <<"rm", "run">> ELSE <<>>

\* mutant: a running container is stopped and run again without rm
ensure_running_NoRemove(c, runs) ==
    LET drift == run_command_str(c.params) # c.prev_run_command IN
    IF runs = "true"
    THEN IF c.changed \/ drift THEN <<"stop", "run">> ELSE <<>>
    ELSE IF runs = "none"
    THEN <<"run">>
    ELSE IF c.changed \/ drift THEN <<"rm", "run">> ELSE <<"start">>

\* mutant: a stopped container is started although the image changed
ensure_running_IgnoresImage(c, runs) ==
    LET drift == run_command_str(c.params) # c.prev_run_command IN
    IF runs = "true"
    THEN IF c.changed \/ drift THEN <<"stop", "rm", "run">> ELSE <<>>
    ELSE IF runs = "none"
    THEN <<"run">>
    ELSE IF drift THEN <<"rm", "run">> ELSE <<"start">>

\* the actions ensure_running issues after the probe returned runs
ensure_running(c, runs) ==
    LET drift == run_command_str(c.params) # c.prev_run_command IN
    IF runs = "true"
    THEN IF c.changed \/ drift THEN <<"stop", "rm", "run">> ELSE <<>>
    ELSE IF runs = "none"
    THEN <<"run">>
    ELSE IF c.changed \/ drift THEN <<"rm", "run">> ELSE <<"start">>

\* mutant: stop is issued whatever the probe returned
ensure_stopped_Blind(c, runs) == IF runs = "true" THEN <<"stop">> ELSE <<"stop">>

\* mutant: the stopped container is removed as well
ensure_stopped_Remove(c, runs) == IF runs = "true" THEN <<"stop", "rm">> ELSE <<>>

ensure_stopped(c, runs) == IF runs = "true" THEN <<"stop">> ELSE <<>>

\* mutant: a container that was not found is started
ensure_restarted_StartAbsent(c, runs) ==
    IF runs = "true"
    THEN restart(c.changed)
    ELSE IF c.changed THEN <<"rm", "run">> ELSE <<"start">>

ensure_restarted(c, runs) ==
    IF runs = "true"
    THEN restart(c.changed)
    ELSE IF runs = "none"
    THEN <<"run">>
    ELSE IF c.changed THEN <<"rm", "run">> ELSE <<"start">>

\* Container.running: True, False or None (the inspect failed)
running(st) ==
    CASE st = "running" -> "true"
      [] st = "stopped" -> "false"
      [] OTHER -> "none"

ContainerPlan(c, runs) ==
    LET plan == CASE c.state = "running" -> ensure_running(c, runs)
                  [] c.state = "stopped" -> ensure_stopped(c, runs)
                  [] OTHER -> ensure_restarted(c, runs)
        reason == IF c.state = "running" /\ run_command_str(c.params) # c.prev_run_command
                  THEN <<"Arguments changed for run command">> ELSE <<>>
    IN [c EXCEPT !.change_reason = @ \o reason,
                 !.todo = plan,
                 !.phase = "container",
                 !.pfail = (runs = "none"),
                 !.pc = IF plan = <<>> THEN "del" ELSE "act"]

Probe(p) ==
    /\ inv[p].pc = "probe"
    /\ \/ inv' = [inv EXCEPT ![p] = ContainerPlan(inv[p], running(container.st))]
       \/ \* the inspect fails although the container exists
          /\ container.st # "absent"
          /\ inv' = [inv EXCEPT ![p] = [ContainerPlan(inv[p], "none") EXCEPT !.qfail = TRUE]]
    /\ UNCHANGED <<file, container, images, now, fileMtime>>

(***************************************************************************)
(* Actions on the runtime (run, start, restart, stop, remove, build,       *)
(* pull): one exec_command each.                                           *)
(***************************************************************************)
\* mutant: the runtime lets a second container take the name
Accepts_NameTwice(a) ==
    CASE a = "run"     -> TRUE
      [] a = "rm"      -> container.st = "stopped"
      [] a = "stop"    -> container.st # "absent"
      [] a = "start"   -> container.st # "absent"
      [] a = "restart" -> container.st # "absent"
      [] OTHER         -> TRUE

\* whether the runtime can carry the command out in its current state
Accepts(a) ==
    CASE a = "run"     -> container.st = "absent"
      [] a = "rm"      -> container.st = "stopped"
      [] a = "stop"    -> container.st # "absent"
      [] a = "start"   -> container.st # "absent"
      [] a = "restart" -> container.st # "absent"
      [] OTHER         -> TRUE

\* the container after command a of invocation c succeeded
ContainerAfter(a, c) ==
    CASE a = "run"     -> [st |-> "running", cmd |-> run_command_str(c.params)]
      [] a = "rm"      -> NoContainer
      [] a = "stop"    -> [container EXCEPT !.st = "stopped"]
      [] a = "start"   -> [container EXCEPT !.st = "running"]
      [] a = "restart" -> [container EXCEPT !.st = "running"]
      [] OTHER         -> container

\* the images after command a of invocation c succeeded: build creates the
\* image now, pull fetches it, and run fetches an image that is missing
ImagesAfter(a, c) ==
    LET img == image_of(c.params) IN
    CASE a = "build" -> [images EXCEPT ![img] =
                            [exists |-> TRUE, cmd |-> build_command_str(c.params), created |-> now]]
      [] a = "pull"  -> [images EXCEPT ![img] = [exists |-> TRUE, cmd |-> <<>>, created |-> 0]]
      [] a = "run"   -> IF images[img].exists THEN images
                        ELSE [images EXCEPT ![img] = [exists |-> TRUE, cmd |-> <<>>, created |-> 0]]
      [] OTHER       -> images

Executed(a) == <<"Executed docker", a>>

\* start, restart, stop and remove log the reason before the command runs,
\* run, build and pull after it returned
LogsFirst(a) == a \in {"start", "restart", "stop", "rm"}

\* mutant: a successful restart leaves changed as it was
Succeeded_RestartUnchanged(c) ==
    LET a == Head(c.todo)
        rest == Tail(c.todo)
    IN [c EXCEPT !.change_reason = @ \o Executed(a),
                 !.changed = IF a = "restart" THEN @ ELSE TRUE,
                 !.calls = Append(@, a),
                 !.todo = rest,
                 !.pc = IF rest # <<>> THEN "act"
                        ELSE IF c.phase = "image" THEN "probe" ELSE "del"]

\* the invocation after its next command succeeded
Succeeded(c) ==
    LET a == Head(c.todo)
        rest == Tail(c.todo)
    IN [c EXCEPT !.change_reason = @ \o Executed(a),
                 !.changed = TRUE,
                 !.calls = Append(@, a),
                 !.todo = rest,
                 !.pc = IF rest # <<>> THEN "act"
                        ELSE IF c.phase = "image" THEN "probe" ELSE "del"]

\* mutant: the exception is swallowed and the entry point goes on
Raised_GoesOn(c) ==
    LET a == Head(c.todo)
        rest == Tail(c.todo)
    IN [c EXCEPT !.calls = Append(@, a),
                 !.failed = a,
                 !.todo = rest,
                 !.pc = IF rest # <<>> THEN "act" ELSE "del"]

\* the invocation after its next command raised CalledProcessError: the
\* exception leaves the entry point and run_module reports the failure
Raised(c) ==
    LET a == Head(c.todo) IN
    [c EXCEPT !.change_reason = IF LogsFirst(a) THEN @ \o Executed(a) ELSE @,
              !.calls = Append(@, a),
              !.failed = a,
              !.todo = <<>>,
              !.pc = "del"]

Exec(p) ==
    /\ inv[p].pc = "act"
    /\ LET a == Head(inv[p].todo) IN
       \/ /\ Accepts(a)
          /\ container' = ContainerAfter(a, inv[p])
          /\ images' = ImagesAfter(a, inv[p])
          /\ inv' = [inv EXCEPT ![p] = Succeeded(inv[p])]
       \/ /\ inv' = [inv EXCEPT ![p] = Raised(inv[p])]
          /\ UNCHANGED <<container, images>>
    /\ UNCHANGED <<file, now, fileMtime>>

(***************************************************************************)
(* Container.__del__ and the result handed to ansible.                     *)
(***************************************************************************)
\* "if self.run_command and self.build_command": both token lists non-empty
SavesCommands(c) ==
    /\ construct_docker_run_command(image_of(c.params), c.params) # <<>>
    /\ construct_docker_build_command(image_of(c.params), c.params) # <<>>

Result(c) ==
    IF c.failed # ""
    THEN FailPayload("Docker command failed")
    ELSE [kind |-> "ok", changed |-> c.changed, msg |-> "", change_reason |-> c.change_reason]

Del(p) ==
    /\ inv[p].pc = "del"
    /\ file' = IF SavesCommands(inv[p]) THEN RecordText(inv[p].params) ELSE file
    /\ inv' = [inv EXCEPT ![p] = [inv[p] EXCEPT !.pc = "done", !.result = Result(inv[p])]]
    /\ UNCHANGED <<container, images, now, fileMtime>>

\* the module process ends (exit_json / fail_json call sys.exit)
Exit(p) ==
    /\ inv[p].pc = "done"
    /\ inv' = [inv EXCEPT ![p] =
                  IF inv[p].result.kind = "ok" /\ inv[p].state = "running"
                  THEN [Idle EXCEPT !.params = inv[p].params]
                  ELSE Idle]
    /\ UNCHANGED <<file, container, images, now, fileMtime>>

(***************************************************************************)
(* The environment, between invocations.                                   *)
(***************************************************************************)
Quiet == \A p \in Procs : inv[p].pc = "idle"

\* a file under the build path is modified
TouchFile ==
    /\ Quiet
    /\ now < MaxTime
    /\ now' = now + 1
    /\ fileMtime' = now'
    /\ inv' = [p \in Procs |-> Idle]
    /\ UNCHANGED <<file, container, images>>

\* the process in the container ends
ContainerExits ==
    /\ Quiet
    /\ container.st = "running"
    /\ container' = [container EXCEPT !.st = "stopped"]
    /\ inv' = [p \in Procs |-> Idle]
    /\ UNCHANGED <<file, images, now, fileMtime>>

(***************************************************************************)
(* One invocation at a time (the module is run by one ansible task).       *)
(***************************************************************************)
Step(p) ==
    \/ \E state \in States, params \in ModuleParams : Invoke(p, state, params)
    \/ CheckImage(p)
    \/ Probe(p)
    \/ Exec(p)
    \/ Del(p)
    \/ Exit(p)

Next ==
    \/ Step(1)
    \/ TouchFile
    \/ ContainerExits

Spec == Init /\ [][Next]_vars

(***************************************************************************)
(* Two module processes reconcile the same container name at once: each    *)
(* runs Ensure Running one time, and nothing orders their steps (the       *)
(* module takes no lock on the record or on the runtime).                  *)
(***************************************************************************)
ConcParams ==
    { q \in ModuleParams :
        q.image = StrVal(ImgF) /\ q.path = None /\ q.build_args = None }

ConcStep(p) ==
    \/ \E params \in ConcParams : Invoke(p, "running", params)
    \/ CheckImage(p)
    \/ Probe(p)
    \/ Exec(p)
    \/ Del(p)

ConcNext ==
    \/ ConcStep(1)
    \/ ConcStep(2)

SpecConc == Init /\ [][ConcNext]_vars

TypeOK ==
    /\ container.st \in {"absent", "stopped", "running"}
    /\ now \in 0..MaxTime
    /\ fileMtime \in 0..now
    /\ \A p \in Procs : inv[p].pc \in {"idle", "image", "probe", "act", "del", "done"}

(***************************************************************************)
(* Properties.                                                             *)
(***************************************************************************)
c1 == inv[1]
Done == c1.pc = "done"
\* the arguments passed __init__: a Container object exists
Constructed == ~InitTypeError(c1.params) /\ ~InitInvalidArgument(c1.params)
Completed == Done /\ c1.result.kind = "ok"
IsPrefix(s, t) == Len(s) <= Len(t) /\ SubSeq(t, 1, Len(s)) = s

\* the image of the invocation is up to date: in local-build mode it exists,
\* was built with the current build command and no file is newer than it; in
\* remote-pull mode it is present
ImageUpToDate ==
    LET img == images[image_of(c1.params)] IN
    IF is_local_image(c1.params)
    THEN /\ img.exists
         /\ img.cmd = build_command_str(c1.params)
         /\ ~(img.created < fileMtime)
    ELSE img.exists

\* C1: a second Ensure Running with the options of a successful first one,
\* the runtime and the record left as that one produced them, issues no
\* runtime action and returns changed = false
C1_Idempotent ==
    (Done /\ c1.repeat /\ ~c1.qfail) =>
        (c1.calls = <<>> /\ c1.result.kind = "ok" /\ ~c1.result.changed)

\* C2: an entry point that completes without a failed command, the probes
\* having reported the true state, leaves the container running (Ensure
\* Running, Ensure Restarted) or not running (Ensure Stopped)
C2_Converges ==
    (Completed /\ ~c1.qfail) =>
        IF c1.state = "stopped" THEN container.st # "running" ELSE container.st = "running"

C2_Witness ==
    /\ Completed /\ ~c1.qfail /\ c1.state = "running"
    /\ c1.container0.st = "stopped" /\ c1.calls = <<"rm", "run">>
    /\ container.st = "running"

\* C3: after Ensure Running completed successfully the image is up to date
C3_RunningImageUpToDate ==
    (Completed /\ c1.state = "running" /\ ~c1.qfail) => ImageUpToDate

\* C4: after Ensure Restarted completed successfully the image is up to date
\* and the container is running
C4_RestartedImageUpToDate ==
    (Completed /\ c1.state = "restarted" /\ ~c1.qfail) =>
        (ImageUpToDate /\ container.st = "running")

\* C5: Ensure Stopped leaves the two persisted lines as they were
C5_StoppedKeepsRecord ==
    (Done /\ c1.state = "stopped") => file = c1.file0

\* C6: an invocation in which a runtime action failed leaves the two
\* persisted lines as they were read at its start
C6_FailureKeepsRecord ==
    (Done /\ c1.failed # "") => file = c1.file0

\* C7: image is required exactly when state is not Stopped: without an image
\* (and without a path) Ensure Stopped completes normally and leaves the
\* container not running, Ensure Running and Ensure Restarted return the
\* invalid-argument failure payload without a runtime call
C7_ImageRequiredUnlessStopped ==
    (Done /\ c1.params.image = None /\ c1.params.path = None /\ ~c1.qfail) =>
        IF c1.state = "stopped"
        THEN c1.result.kind = "ok" /\ container.st # "running"
        ELSE c1.result = FailPayload("Invalid argument") /\ c1.calls = <<>>

\* image ends with the reserved suffix ':local'
EndsWithLocalTag(image) ==
    /\ Len(image) >= Len(LOCAL_TAG)
    /\ SubSeq(image, Len(image) - Len(LOCAL_TAG) + 1, Len(image)) = LOCAL_TAG

\* C8: with path set and a ':' in the image, and with path unset and an image
\* ending in ':local', the invocation fails with the invalid-argument payload
\* (changed = true) and no runtime call
C8_InvalidArgument ==
    (/\ Done
     /\ c1.params.image # None
     /\ \/ c1.params.path # None /\ Contains(c1.params.image.v, ":")
        \/ c1.params.path = None /\ EndsWithLocalTag(c1.params.image.v))
    => (c1.result = FailPayload("Invalid argument") /\ c1.calls = <<>>)

\* C9: Ensure Running in remote-pull mode, the container absent and the image
\* present, issues exactly [run] and returns changed = true
C9_Pre ==
    /\ Done /\ c1.state = "running" /\ Constructed
    /\ ~is_local_image(c1.params)
    /\ c1.container0.st = "absent"
    /\ c1.image0.exists
    /\ ~c1.qfail

C9_AbsentRemotePresent ==
    C9_Pre => (c1.calls = <<"run">> /\ c1.result.changed)

C9_Witness ==
    /\ C9_Pre /\ Completed /\ c1.file0 # <<>>
    /\ run_command_str(c1.params) = c1.prev_run_command
    /\ c1.calls = <<"run">> /\ container.st = "running"

\* C10: Ensure Running in local-build mode on a running container, the build
\* command equal to the persisted one and the file newer than the image,
\* issues exactly [build, stop, rm, run] in that order, returns changed = true
\* and reports a 'File changed' reason
C10_Pre ==
    /\ Done /\ c1.state = "running" /\ Constructed
    /\ is_local_image(c1.params)
    /\ c1.container0.st = "running"
    /\ build_command_str(c1.params) = c1.prev_build_command
    /\ c1.image0.exists
    /\ c1.image0.created < c1.mtime0
    /\ ~c1.qfail

C10_FileChangedRebuild ==
    C10_Pre =>
        /\ IsPrefix(c1.calls, <<"build", "stop", "rm", "run">>)
        /\ c1.result.changed
        /\ c1.failed = "" =>
              /\ c1.calls = <<"build", "stop", "rm", "run">>
              /\ c1.result.kind = "ok"
              /\ Contains(c1.result.change_reason, "File changed")

C10_Witness ==
    /\ C10_Pre /\ Completed
    /\ c1.calls = <<"build", "stop", "rm", "run">>
    /\ run_command_str(c1.params) = c1.prev_run_command

\* the commands issued on the image and on the container
IsImageCall(a) == a \in {"build", "pull"}
ImageCalls == SelectSeq(c1.calls, IsImageCall)
IsContainerCall(a) == ~IsImageCall(a)
ContainerCalls == SelectSeq(c1.calls, IsContainerCall)

\* C11: Ensure Stopped issues exactly [stop] on a running container and
\* nothing (changed = false, no reason) on a stopped or absent one; it never
\* issues another command
C11_StoppedOnlyStops ==
    (Done /\ c1.state = "stopped" /\ Constructed) =>
        /\ c1.calls \in {<<>>, <<"stop">>}
        /\ ~c1.qfail =>
              IF c1.container0.st = "running"
              THEN c1.calls = <<"stop">>
              ELSE /\ c1.calls = <<>>
                   /\ c1.result = [kind |-> "ok", changed |-> FALSE, msg |-> "",
                                   change_reason |-> <<>>]

C11_Witness ==
    /\ Completed /\ c1.state = "stopped" /\ ~c1.qfail
    /\ c1.container0.st = "running" /\ c1.calls = <<"stop">>
    /\ container.st = "stopped"

C13_FailureEndsInvocation ==
    (c1.failed # "") =>
        /\ c1.pc \in {"del", "done"}
        /\ c1.todo = <<>>
        /\ c1.calls # <<>> /\ c1.calls[Len(c1.calls)] = c1.failed
        /\ Done => c1.result = FailPayload("Docker command failed")

C13_Witness ==
    /\ Done /\ c1.failed = "stop"
    /\ c1.state = "running" /\ c1.calls = <<"build", "stop">>
    /\ c1.result.kind = "fail" /\ c1.result.changed

\* C14: a failed inspect is never an error: a container that cannot be
\* inspected is treated as absent (Ensure Running and Ensure Restarted go to
\* run, Ensure Stopped does nothing), an image that cannot be inspected is
\* built or pulled, and only a failed action gives a failure payload
C14_QueryFailureIsAbsence ==
    (Done /\ Constructed) =>
        /\ c1.pfail => ContainerCalls = (IF c1.state = "stopped" THEN <<>> ELSE <<"run">>)
        /\ c1.ifail => ImageCalls = (IF is_local_image(c1.params) THEN <<"build">> ELSE <<"pull">>)
        /\ c1.result.kind \in {"ok", "fail"}
        /\ c1.result.kind = "fail" => c1.failed # ""

C14_Witness ==
    /\ Done /\ c1.qfail /\ c1.pfail /\ c1.ifail
    /\ c1.state = "running" /\ c1.container0.st = "stopped" /\ c1.image0.exists
    /\ c1.calls = <<"pull", "run">>

\* the commands of this invocation equal the two lines read from the record
SameAsRecord ==
    /\ build_command_str(c1.params) = c1.prev_build_command
    /\ run_command_str(c1.params) = c1.prev_run_command

\* C15: the commands made of a mapping equal the ones read back from the
\* record another mapping persisted exactly when the two mappings are the same
C15_DriftExact ==
    (c1.pc # "idle" /\ Constructed) =>
        \A q \in ModuleParams :
            (~InitTypeError(q) /\ ~InitInvalidArgument(q) /\ c1.file0 = RecordText(q))
                => (SameAsRecord <=> (q = c1.params))

RunDrift == run_command_str(c1.params) # c1.prev_run_command
BuildDrift == build_command_str(c1.params) # c1.prev_build_command

\* C16: Ensure Running on a running container issues exactly stop, rm, run
\* when a build or pull was executed or the run command differs from the
\* persisted one, and otherwise no container command (nothing at all and
\* changed = false without a build or pull); never start or restart
C16_Pre ==
    /\ Done /\ c1.state = "running" /\ Constructed
    /\ c1.container0.st = "running" /\ ~c1.pfail
    /\ c1.failed \notin {"build", "pull"}

C16_RunningContainer ==
    C16_Pre =>
        IF ImageCalls # <<>> \/ RunDrift
        THEN /\ ContainerCalls # <<>>
             /\ IsPrefix(ContainerCalls, <<"stop", "rm", "run">>)
             /\ c1.failed = "" => ContainerCalls = <<"stop", "rm", "run">>
        ELSE /\ c1.calls = <<>>
             /\ c1.result.kind = "ok" /\ ~c1.result.changed

C16_Witness ==
    /\ C16_Pre /\ Completed
    /\ ImageCalls = <<>> /\ RunDrift
    /\ c1.calls = <<"stop", "rm", "run">>

\* C17: Ensure Running on a stopped container issues exactly rm, run (after
\* the build or pull) when a build or pull was executed or the run command
\* differs from the persisted one, and otherwise exactly start; never stop
C17_Pre ==
    /\ Done /\ c1.state = "running" /\ Constructed
    /\ c1.container0.st = "stopped" /\ ~c1.pfail
    /\ c1.failed \notin {"build", "pull"}

C17_StoppedContainer ==
    C17_Pre =>
        /\ c1.calls = ImageCalls \o ContainerCalls
        /\ IF ImageCalls # <<>> \/ RunDrift
           THEN /\ ContainerCalls # <<>>
                /\ IsPrefix(ContainerCalls, <<"rm", "run">>)
                /\ c1.failed = "" => ContainerCalls = <<"rm", "run">>
           ELSE c1.calls = <<"start">>

C17_Witness ==
    /\ C17_Pre /\ Completed
    /\ ~RunDrift /\ c1.calls = <<"build", "rm", "run">>
    /\ container.st = "running"

\* C18: with a local image Ensure Running builds exactly when the build
\* command differs from the persisted one, the inspect of the image fails or
\* the files are strictly newer than the image; a changed build command
\* means the image is not inspected; the build comes before any container
\* command
C18_LocalBuild ==
    (Done /\ c1.state = "running" /\ Constructed /\ is_local_image(c1.params)) =>
        /\ ImageCalls \in {<<>>, <<"build">>}
        /\ (ImageCalls = <<"build">>) <=>
              \/ BuildDrift
              \/ c1.ifail
              \/ (c1.image0.exists /\ c1.image0.created < c1.mtime0)
        /\ BuildDrift => ~c1.iquery
        /\ ~BuildDrift => c1.iquery
        /\ c1.calls = ImageCalls \o ContainerCalls

C18_Witness ==
    /\ Completed /\ c1.state = "running" /\ is_local_image(c1.params)
    /\ ~BuildDrift /\ ~c1.ifail /\ c1.iquery
    /\ c1.image0.exists /\ c1.image0.created < c1.mtime0
    /\ c1.container0.st = "running"
    /\ c1.calls = <<"build", "stop", "rm", "run">>

\* the command line has an option made of build_args
HasBuildArgsFlag(tokens) ==
    \E i \in 1..Len(tokens) : tokens[i] = <<"--", "build", "-", "args">>

\* C19: build_args goes to the build command only: the run command has no
\* --build-args option and is the same whatever build_args is
C19_BuildArgsBuildOnly ==
    (c1.pc # "idle" /\ Constructed) =>
        /\ ~HasBuildArgsFlag(construct_docker_run_command(image_of(c1.params), c1.params))
        /\ run_command_str(c1.params)
             = run_command_str([c1.params EXCEPT !.build_args = None])

\* the actions named by the "Executed 'docker <action>'" entries of a list of
\* reasons, in order
RECURSIVE ExecutedEntries(_)
ExecutedEntries(reasons) ==
    IF Len(reasons) < 2 THEN <<>>
    ELSE IF reasons[1] = "Executed docker"
    THEN <<reasons[2]>> \o ExecutedEntries(SubSeq(reasons, 3, Len(reasons)))
    ELSE ExecutedEntries(Tail(reasons))

\* C20: after a successful invocation changed is true exactly when a command
\* was executed, and change_reason has one "Executed 'docker <action>'" entry
\* per executed command, in the order of execution
C20_OutcomeReflectsActions ==
    Completed =>
        /\ c1.result.changed <=> (c1.calls # <<>>)
        /\ ExecutedEntries(c1.result.change_reason) = c1.calls

C20_Witness ==
    /\ Completed /\ c1.state = "restarted"
    /\ c1.calls = <<"restart">> /\ c1.result.changed
    /\ c1.result.change_reason = Executed("restart")

\* the named container exists and was created by this module
ModuleContainer == container.st # "absent" /\ container.cmd # External

\* C21: between invocations, when the container exists and the run-command
\* line of the record is not empty, that line is the run command the
\* container was created with (containers made by this module, commands
\* without a line break)
C21_RecordMatchesContainer ==
    (Quiet /\ ModuleContainer /\ ~Contains(container.cmd, NL)
           /\ prev_run_command(file) # <<>>)
        => prev_run_command(file) = container.cmd

\* C22: after a successful Ensure Running with accurate probes the container
\* runs and was created by the run command of this invocation's options
C22_DeclaredOptionsTakeEffect ==
    (Completed /\ c1.state = "running" /\ ~c1.qfail /\ c1.container0.cmd # External) =>
        /\ container.st = "running"
        /\ container.cmd = run_command_str(c1.params)

\* the container states in which the claim allows command a to be issued
IssuedIn(a, st) ==
    CASE a = "rm"      -> st = "stopped"
      [] a = "run"     -> st = "absent"
      [] a = "start"   -> st = "stopped"
      [] a = "stop"    -> st = "running"
      [] a = "restart" -> st = "running"
      [] OTHER         -> TRUE

\* C23: in an invocation with accurate probes every command is issued in a
\* container state that accepts it: rm and start on a stopped container, run
\* when there is none, stop and restart on a running one
C23_ActionsFitState ==
    [][ (c1.pc = "act" /\ c1'.calls # c1.calls /\ ~c1.qfail)
            => IssuedIn(Head(c1.todo), container.st) ]_vars

C23_Witness ==
    /\ Completed /\ ~c1.qfail /\ c1.state = "running"
    /\ c1.container0.st = "running"
    /\ c1.calls = <<"pull", "stop", "rm", "run">>
    /\ container.st = "running"

\* process p saw no container and issued run
RanOnAbsent(p) ==
    /\ inv[p].pc = "done" /\ inv[p].state = "running"
    /\ inv[p].pfail /\ ~inv[p].qfail
    /\ Contains(inv[p].calls, "run")

\* C24: nothing keeps two concurrent Ensure Running invocations from both
\* seeing the container absent and both issuing run; the runs never both
\* succeed, one fails (the name is taken)
C24_ConcurrentRunsConflict ==
    (RanOnAbsent(1) /\ RanOnAbsent(2)) =>
        (inv[1].failed = "run" \/ inv[2].failed = "run")

\* both saw the container absent and issued run, the run of process 1 made
\* the container and the record holds the commands of process 2
C24_Witness ==
    /\ RanOnAbsent(1) /\ RanOnAbsent(2)
    /\ inv[1].failed = "" /\ inv[2].failed = "run"
    /\ container.cmd = run_command_str(inv[1].params)
    /\ prev_run_command(file) = run_command_str(inv[2].params)
    /\ prev_run_command(file) # container.cmd

====
